---- MODULE Spec2Model ----
(***************************************************************************)
(* Model of the OpenStack container entrypoint                             *)
(* (src/apps/openstack/entrypoint.py): configuration merge, database        *)
(* resolution, credential bootstrap, credential wiring, schema migration    *)
(* dispatch and process supervision.                                        *)
(*                                                                          *)
(* Strings are modelled as sequences of chunks.  A chunk is a piece of text *)
(* without the delimiter "_"; the delimiter is a chunk of its own.  The     *)
(* name GLANCE_DB_HOST is <<"GLANCE","_","DB","_","HOST">>.  Values of      *)
(* configuration options are sequences of tokens, so that a formatted       *)
(* connection string keeps the parts it was built from.  Values are taken   *)
(* free of "%" (configparser interpolation is not modelled).                *)
(***************************************************************************)
EXTENDS Integers, Sequences, FiniteSets, TLC

VARIABLES
    env,        \* os.environ: name (chunk sequence) -> value
    templ,      \* base templates CONFIG_FILES[s]: [there, content]
    cfgFile,    \* effective config files under CONFIG_DIRS[s]: [there, content]
    credFile,   \* credential records app_credentials/<s>_app_cred.json
    fmode,      \* permission bits of the key and credential files, "absent" if none
    umask,      \* file mode creation mask of the entrypoint process
    db,         \* the embedded database files: tables, marker rows, routing rows
    ident,      \* objects held by the identity service (persistent)
    ksUp,       \* the identity endpoint localhost:5000 answers
    boot,       \* locals of create_application_credentials
    mig,        \* what the migration dispatch of each service ran
    procs,      \* the processes start_services owns
    pc,         \* control point of main(): <<stage, step>>
    exitCode,   \* exit status of the entrypoint, negative while it runs
    run,        \* number of the container run
    faults,     \* failures the environment has injected so far
    missed,     \* history: a polling pass went by an exited process
    probe       \* what the GET of http://localhost/healthz meets (healthcheck.py)

inputs == <<env, templ, umask, probe>>
records == <<credFile, fmode, db>>
files == <<cfgFile, credFile, fmode, db>>
identity == <<ident, ksUp, boot>>
super == <<procs, missed>>
vars == <<env, templ, umask, cfgFile, credFile, fmode, db, ident, ksUp, boot, mig, procs, pc,
          exitCode, run, faults, missed, probe>>

----------------------------------------------------------------------------
(* Bounds of the model *)

MaxEnvVars == 2     \* override variables drawn into the environment of SpecMerge
MaxRuns == 2        \* container runs (the first start and the restarts)
MaxFaults == 1      \* failures injected by the environment over all runs

----------------------------------------------------------------------------
(* Names *)

\* the services with a template in CONFIG_FILES, and those credentials are made for
ConfigServices == {"keystone", "glance", "cinder", "neutron", "ironic", "nova"}
BootServices == <<"glance", "cinder", "neutron", "ironic", "nova", "horizon">>
CredServices == {BootServices[i] : i \in 1..Len(BootServices)}

UpperTab ==
    [s \in ConfigServices \cup CredServices |->
        CASE s = "keystone" -> "KEYSTONE" [] s = "glance" -> "GLANCE"
          [] s = "cinder" -> "CINDER"     [] s = "neutron" -> "NEUTRON"
          [] s = "ironic" -> "IRONIC"     [] s = "nova" -> "NOVA"
          [] s = "horizon" -> "HORIZON"]

LowerTab ==
    [c \in {"A", "B", "C", "DATABASE", "CONNECTION", "DB", "HOST", "USER",
            "PASSWORD", "NAME", "API", "APP", "CRED", "SECRET", "ADMIN",
            "SERVICE", "SQLITE", "POSTGRESQL", "DEFAULT", "NEUTRON", "USERNAME"} |->
        CASE c = "A" -> "a" [] c = "B" -> "b" [] c = "C" -> "c"
          [] c = "DATABASE" -> "database" [] c = "CONNECTION" -> "connection"
          [] c = "DB" -> "db" [] c = "HOST" -> "host" [] c = "USER" -> "user"
          [] c = "PASSWORD" -> "password" [] c = "NAME" -> "name"
          [] c = "API" -> "api" [] c = "APP" -> "app" [] c = "CRED" -> "cred"
          [] c = "SECRET" -> "secret" [] c = "ADMIN" -> "admin"
          [] c = "SERVICE" -> "service" [] c = "SQLITE" -> "sqlite"
          [] c = "POSTGRESQL" -> "postgresql" [] c = "DEFAULT" -> "default"
          [] c = "NEUTRON" -> "neutron" [] c = "USERNAME" -> "username"]

\* str.upper() of a service name, str.lower() of a chunk and of a string
Upper(s) == UpperTab[s]
Lower(c) == IF c \in DOMAIN LowerTab THEN LowerTab[c] ELSE c
LowerSeq(str) == [i \in 1..Len(str) |-> Lower(str[i])]

Unset == "<unset>"      \* os.environ.get(name) returning None
EmptyMap == [x \in {} |-> x]

\* os.environ.get(name) and os.environ.get(name, default)
EnvGet(e, name) == IF name \in DOMAIN e THEN e[name] ELSE Unset
EnvGetDefault(e, name, default) == IF name \in DOMAIN e THEN e[name] ELSE default

\* f'{service.upper()}_' followed by the rest of a variable name
ServicePrefix(s) == <<Upper(s), "_">>
ServiceVar(s, rest) == ServicePrefix(s) \o rest

\* key.startswith(prefix)
StartsWith(key, prefix) ==
    /\ Len(key) >= Len(prefix)
    /\ SubSeq(key, 1, Len(prefix)) = prefix

----------------------------------------------------------------------------
(* configparser.ConfigParser: section -> (option -> value).  The DEFAULT   *)
(* section always exists; an empty section name given to set() addresses   *)
(* DEFAULT; options of DEFAULT are visible in every section.               *)

DEFAULTSECT == <<"DEFAULT">>
EmptyConfig == (DEFAULTSECT :> EmptyMap)

\* section in config
HasSection(c, s) == s \in DOMAIN c

\* config[section] = {} for a section that is absent
AddSection(c, s) == IF s \in DOMAIN c THEN c ELSE (s :> EmptyMap) @@ c

\* config[section][option] = value
SetOpt(c, s, o, v) ==
    LET t == IF s = <<>> THEN DEFAULTSECT ELSE s
    IN  [x \in DOMAIN c |->
            IF x = t THEN [y \in DOMAIN c[x] \cup {o} |-> IF y = o THEN v ELSE c[x][y]]
                     ELSE c[x]]

\* option in config[section], config[section][option]
HasOpt(c, s, o) ==
    /\ s \in DOMAIN c
    /\ (o \in DOMAIN c[s] \/ o \in DOMAIN c[DEFAULTSECT])
GetOpt(c, s, o) == IF o \in DOMAIN c[s] THEN c[s][o] ELSE c[DEFAULTSECT][o]

\* config.read(path): a file that cannot be opened is silently skipped
ReadConfig(file) == IF file.there THEN file.content ELSE EmptyConfig

\* with open(path, 'w') as f: config.write(f)
WriteConfig(c) == [there |-> TRUE, content |-> c]
NoFile == [there |-> FALSE, content |-> EmptyConfig]

----------------------------------------------------------------------------
(* merge_config *)

\* a split on the last delimiter, str.rsplit('_', 1)
SplitLast(str) ==
    IF \E i \in 1..Len(str) : str[i] = "_"
    THEN LET i == CHOOSE j \in 1..Len(str) :
                     /\ str[j] = "_"
                     /\ \A k \in (j + 1)..Len(str) : str[k] # "_"
         IN  <<SubSeq(str, 1, i - 1), SubSeq(str, i + 1, Len(str))>>
    ELSE <<str>>

\* str.split('_', 1)
SplitFirst(str) ==
    IF \E i \in 1..Len(str) : str[i] = "_"
    THEN LET i == CHOOSE j \in 1..Len(str) :
                     /\ str[j] = "_"
                     /\ \A k \in 1..(j - 1) : str[k] # "_"
         IN  <<SubSeq(str, 1, i - 1), SubSeq(str, i + 1, Len(str))>>
    ELSE <<str>>

\* an iteration that leaves an option the configuration already has alone
MergeVarKeep(c, s, key, value) ==
    IF StartsWith(key, ServicePrefix(s))
    THEN LET parts == SplitFirst(SubSeq(key, Len(ServicePrefix(s)) + 1, Len(key)))
         IN  IF Len(parts) = 2
             THEN LET section == LowerSeq(parts[1])
                      option == LowerSeq(parts[2])
                  IN  IF HasSection(c, section) /\ option \in DOMAIN c[section]
                      THEN c
                      ELSE SetOpt(AddSection(c, section), section, option, <<value>>)
             ELSE c
    ELSE c

\* one iteration of the loop over os.environ.items()
MergeVar(c, s, key, value) ==
    IF StartsWith(key, ServicePrefix(s))
    THEN LET parts == SplitFirst(SubSeq(key, Len(ServicePrefix(s)) + 1, Len(key)))
         IN  IF Len(parts) = 2
             THEN LET section == LowerSeq(parts[1])
                      option == LowerSeq(parts[2])
                  IN  SetOpt(AddSection(c, section), section, option, <<value>>)
             ELSE c
    ELSE c

\* the loop, in the order in which os.environ yields the variables
RECURSIVE MergeLoop(_, _, _, _)
MergeLoop(c, s, e, order) ==
    IF order = <<>> THEN c
    ELSE MergeLoop(MergeVar(c, s, order[1], e[order[1]]), s, e, Tail(order))

\* the orders in which os.environ may yield a set of names
RECURSIVE Orders(_)
Orders(S) ==
    IF S = {} THEN {<<>>}
    ELSE UNION {{<<x>> \o o : o \in Orders(S \ {x})} : x \in S}

\* only the variables of the service matter to the result
ServiceVars(s, e) == {k \in DOMAIN e : StartsWith(k, ServicePrefix(s))}

MergeStep(s) ==
    /\ pc = <<s, "merge">>
    /\ \E order \in Orders(ServiceVars(s, env)) :
          cfgFile' = [cfgFile EXCEPT
                        ![s] = WriteConfig(MergeLoop(ReadConfig(templ[s]), s, env, order))]
    /\ pc' = <<s, "db">>
    /\ UNCHANGED <<inputs, records, identity, mig, super, exitCode, run, faults>>

----------------------------------------------------------------------------
(* configure_database_connection *)

DefaultDbTypeVar == <<"OPENSTACK", "_", "DEFAULT", "_", "DB", "_", "TYPE">>
DbHostVar(s) == ServiceVar(s, <<"DB", "_", "HOST">>)
DbUserVar(s) == ServiceVar(s, <<"DB", "_", "USER">>)
DbPasswordVar(s) == ServiceVar(s, <<"DB", "_", "PASSWORD">>)
DbNameVar(s) == ServiceVar(s, <<"DB", "_", "NAME">>)

\* str.lower() of a database type given in the environment
LowerType(v) == IF v \in {"sqlite", "SQLite", "SQLITE"} THEN "sqlite" ELSE v

\* f'sqlite:///{db_file}' with db_file = f'/var/lib/openstack/{service.lower()}.sqlite'
SqliteConnection(s) == <<"sqlite:///", "/var/lib/openstack/", Lower(s), ".sqlite">>

\* f'postgresql://{db_user}:{db_pass}@{db_host}/{db_name}'
PostgresSwapped(user, pass, host, name) ==
    <<"postgresql://", pass, ":", user, "@", host, "/", name>>

PostgresConnection(user, pass, host, name) ==
    <<"postgresql://", user, ":", pass, "@", host, "/", name>>

\* the condition under which SQLite is used
UseSqliteHostOnly(e, s) == EnvGet(e, DbHostVar(s)) = Unset

UseSqlite(e, s) ==
    \/ EnvGet(e, DbHostVar(s)) = Unset
    \/ LowerType(EnvGetDefault(e, DefaultDbTypeVar, "postgresql")) = "sqlite"
    \/ EnvGet(e, DbHostVar(s)) = "localhost"

ResolveConnection(e, s) ==
    IF UseSqlite(e, s)
    THEN SqliteConnection(s)
    ELSE PostgresConnection(EnvGetDefault(e, DbUserVar(s), Lower(s)),
                            EnvGetDefault(e, DbPasswordVar(s), Lower(s)),
                            EnvGet(e, DbHostVar(s)),
                            EnvGetDefault(e, DbNameVar(s), Lower(s)))

\* a database step that leaves the configuration as it read it
ConfigureDatabaseNothing(c, s, e) == c

\* a database step that keeps a connection the configuration already has
ConfigureDatabaseKeep(c, s, e) ==
    IF HasSection(c, <<"database">>) /\ <<"connection">> \in DOMAIN c[<<"database">>]
    THEN c
    ELSE SetOpt(AddSection(c, <<"database">>), <<"database">>, <<"connection">>,
                ResolveConnection(e, s))

ConfigureDatabaseConnection(c, s, e) ==
    SetOpt(AddSection(c, <<"database">>), <<"database">>, <<"connection">>,
           ResolveConnection(e, s))

DbStep(s) ==
    /\ pc = <<s, "db">>
    /\ cfgFile' = [cfgFile EXCEPT
                     ![s] = WriteConfig(ConfigureDatabaseConnection(ReadConfig(cfgFile[s]), s, env))]
    /\ pc' = IF s = "keystone" THEN <<"keystone", "appcred">> ELSE <<s, "wire">>
    /\ UNCHANGED <<inputs, records, identity, mig, super, exitCode, run, faults>>

----------------------------------------------------------------------------
(* configure_service_with_application_credential *)

AuthSection == <<"keystone", "_", "authtoken">>
AppCredType == <<"v3applicationcredential">>
AuthUrl == <<"http://localhost:5000/v3">>

\* the four assignments made from a credential record
SetAppCredNameAsId(c, sect, rec) ==
    SetOpt(SetOpt(SetOpt(SetOpt(c,
        sect, <<"auth", "_", "type">>, AppCredType),
        sect, <<"auth", "_", "url">>, AuthUrl),
        sect, <<"application", "_", "credential", "_", "id">>, rec.name),
        sect, <<"application", "_", "credential", "_", "secret">>, rec.secret)

SetAppCred(c, sect, rec) ==
    SetOpt(SetOpt(SetOpt(SetOpt(c,
        sect, <<"auth", "_", "type">>, AppCredType),
        sect, <<"auth", "_", "url">>, AuthUrl),
        sect, <<"application", "_", "credential", "_", "id">>, rec.id),
        sect, <<"application", "_", "credential", "_", "secret">>, rec.secret)

NoCred == [there |-> FALSE, id |-> <<>>, name |-> <<>>, secret |-> <<>>]

WireStep(s) ==
    /\ pc = <<s, "wire">>
    /\ IF credFile[s].there
       THEN cfgFile' = [cfgFile EXCEPT
                          ![s] = WriteConfig(SetAppCred(AddSection(ReadConfig(cfgFile[s]), AuthSection),
                                                        AuthSection, credFile[s]))]
       ELSE UNCHANGED cfgFile      \* "skipping": the function returns
    /\ pc' = IF s = "nova" THEN <<"nova", "peers">> ELSE <<s, "migrate">>
    /\ UNCHANGED <<inputs, records, identity, mig, super, exitCode, run, faults>>

----------------------------------------------------------------------------
(* configure_nova: the peer sections, the API endpoints, the API database *)

\* 'sqlite' in connection
SqliteTokens == {"sqlite:///", ".sqlite", "db_sqlite"}
ContainsSqlite(v) == \E i \in 1..Len(v) : v[i] \in SqliteTokens

PeerPasswordVar(peer) == ServiceVar(peer, <<"SERVICE", "_", "PASSWORD">>)

\* a wiring that writes the password fields whether or not there is a record
NovaPeerBoth(c, peer, rec, e) ==
    LET sect == <<peer>>
        c0 == SetOpt(SetOpt(SetOpt(SetOpt(SetOpt(SetOpt(SetOpt(AddSection(c, sect),
                sect, <<"auth", "_", "type">>, <<"password">>),
                sect, <<"auth", "_", "url">>, AuthUrl),
                sect, <<"project", "_", "name">>, <<"service">>),
                sect, <<"username">>, <<peer>>),
                sect, <<"password">>, <<EnvGetDefault(e, PeerPasswordVar(peer), peer)>>),
                sect, <<"user", "_", "domain", "_", "name">>, <<"Default">>),
                sect, <<"project", "_", "domain", "_", "name">>, <<"Default">>)
    IN  IF rec.there THEN SetAppCred(c0, sect, rec) ELSE c0

\* the [ironic] and the [neutron] section of nova.conf
NovaPeer(c, peer, rec, e) ==
    LET sect == <<peer>>
        c0 == AddSection(c, sect)
    IN  IF rec.there
        THEN SetAppCred(c0, sect, rec)
        ELSE SetOpt(SetOpt(SetOpt(SetOpt(SetOpt(SetOpt(SetOpt(c0,
                sect, <<"auth", "_", "type">>, <<"password">>),
                sect, <<"auth", "_", "url">>, AuthUrl),
                sect, <<"project", "_", "name">>, <<"service">>),
                sect, <<"username">>, <<peer>>),
                sect, <<"password">>, <<EnvGetDefault(e, PeerPasswordVar(peer), peer)>>),
                sect, <<"user", "_", "domain", "_", "name">>, <<"Default">>),
                sect, <<"project", "_", "domain", "_", "name">>, <<"Default">>)

NovaDefaults(c) ==
    SetOpt(SetOpt(SetOpt(SetOpt(SetOpt(c,
        DEFAULTSECT, <<"compute", "_", "driver">>, <<"ironic.IronicDriver">>),
        DEFAULTSECT, <<"osapi", "_", "compute", "_", "listen">>, <<"0.0.0.0">>),
        DEFAULTSECT, <<"osapi", "_", "compute", "_", "listen", "_", "port">>, <<"8774">>),
        DEFAULTSECT, <<"metadata", "_", "listen">>, <<"0.0.0.0">>),
        DEFAULTSECT, <<"metadata", "_", "listen", "_", "port">>, <<"8775">>)

ApiDbHostVar == <<"NOVA", "_", "API", "_", "DB", "_", "HOST">>
ApiDbUserVar == <<"NOVA", "_", "API", "_", "DB", "_", "USER">>
ApiDbPasswordVar == <<"NOVA", "_", "API", "_", "DB", "_", "PASSWORD">>
ApiDbNameVar == <<"NOVA", "_", "API", "_", "DB", "_", "NAME">>

ApiSqliteConnection == <<"sqlite:///", "/var/lib/openstack/", "nova_api", ".sqlite">>
ApiSection == <<"api", "_", "database">>

\* the connection written to [api_database]
ApiConnectionByHost(c, e) ==
    LET host == EnvGetDefault(e, ApiDbHostVar, EnvGetDefault(e, DbHostVar("nova"), "localhost"))
    IN  IF host = "localhost"
        THEN ApiSqliteConnection
        ELSE PostgresConnection(EnvGetDefault(e, ApiDbUserVar, "nova"),
                                EnvGetDefault(e, ApiDbPasswordVar, "nova"),
                                host,
                                EnvGetDefault(e, ApiDbNameVar, "nova_api"))

ApiConnection(c, e) ==
    IF ContainsSqlite(GetOpt(c, <<"database">>, <<"connection">>))
    THEN ApiSqliteConnection
    ELSE LET host == EnvGetDefault(e, ApiDbHostVar,
                                   EnvGetDefault(e, DbHostVar("nova"), "localhost"))
         IN  IF host = "localhost"
                \/ ContainsSqlite(GetOpt(c, <<"database">>, <<"connection">>))
             THEN ApiSqliteConnection
             ELSE PostgresConnection(EnvGetDefault(e, ApiDbUserVar, "nova"),
                                     EnvGetDefault(e, ApiDbPasswordVar, "nova"),
                                     host,
                                     EnvGetDefault(e, ApiDbNameVar, "nova_api"))

NovaApiDatabase(c, e) ==
    SetOpt(AddSection(c, ApiSection), ApiSection, <<"connection">>, ApiConnection(c, e))

NovaStep ==
    /\ pc = <<"nova", "peers">>
    /\ LET c0 == ReadConfig(cfgFile["nova"])
           c1 == NovaPeer(c0, "ironic", credFile["ironic"], env)
           c2 == NovaPeer(NovaDefaults(c1), "neutron", credFile["neutron"], env)
       IN  cfgFile' = [cfgFile EXCEPT !["nova"] = WriteConfig(NovaApiDatabase(c2, env))]
    /\ pc' = <<"nova", "migrate">>
    /\ UNCHANGED <<inputs, records, identity, mig, super, exitCode, run, faults>>

----------------------------------------------------------------------------
(* Leaving the entrypoint: sys.exit(code), or main() returning *)

Running == exitCode < 0

Exit(code) ==
    /\ pc' = <<"exit", "done">>
    /\ exitCode' = code

\* a failure injected by the environment counts against the budget
CanFail == faults < MaxFaults
Outcomes == IF CanFail THEN {TRUE, FALSE} ELSE {TRUE}
Charge(ok) == faults' = IF ok THEN faults ELSE faults + 1

----------------------------------------------------------------------------
(* main and configure_keystone up to the credential bootstrap *)

\* the key files '0' of the token and of the credential encryption, and the
\* credential record files
KeyFiles == {"fernet-keys/0", "credential-keys/0"}
\* the module file start_services generates for the gateway
GlueFile == "/tmp/openstack_app.py"
TempFiles == {GlueFile}
ModeFiles == KeyFiles \cup CredServices \cup TempFiles
Umasks == {"022", "077"}

\* open(path, 'w'): a file that exists keeps its mode, a new one gets 0666
\* less the bits of the mask
OpenForWrite(mode, um) ==
    IF mode # "absent" THEN mode ELSE IF um = "077" THEN "0600" ELSE "0644"

\* key initialisation that leaves the modes as the files were created
InitKeysNoChmod(m, um) ==
    [f \in DOMAIN m |-> IF f \in KeyFiles THEN OpenForWrite(m[f], um) ELSE m[f]]

\* init_keystone_fernet_keys: each key '0' is created unless it exists, then
\* every file of the two key directories is set to 0600
InitKeys(m, um) ==
    LET created == [f \in DOMAIN m |->
                       IF f \in KeyFiles THEN OpenForWrite(m[f], um) ELSE m[f]]
    IN  [f \in DOMAIN m |-> IF f \in KeyFiles THEN "0600" ELSE created[f]]

\* prepare_service_directories
PrepareStep ==
    /\ pc = <<"prepare", "dirs">>
    /\ fmode' = InitKeys(fmode, umask)
    /\ pc' = <<"keystone", "merge">>
    /\ UNCHANGED <<inputs, cfgFile, credFile, db, identity, mig, super, exitCode, run, faults>>

\* enable_keystone_application_credentials
EnableAppCreds(c) ==
    LET sect == <<"application", "_", "credential">>
    IN  SetOpt(SetOpt(AddSection(c, sect), sect, <<"driver">>, <<"sql">>),
               sect, <<"enable">>, <<"True">>)

EnableAppCredStep ==
    /\ pc = <<"keystone", "appcred">>
    /\ cfgFile' = [cfgFile EXCEPT
                     !["keystone"] = WriteConfig(EnableAppCreds(ReadConfig(cfgFile["keystone"])))]
    /\ pc' = <<"keystone", "dbsync">>
    /\ UNCHANGED <<inputs, records, identity, mig, super, exitCode, run, faults>>

\* a schema sync whose failure is only logged
KeystoneSyncLenient ==
    /\ pc = <<"keystone", "dbsync">>
    /\ \E ok \in Outcomes :
          /\ Charge(ok)
          /\ mig' = [mig EXCEPT !["keystone"] = [tool |-> "native", ok |-> ok]]
    /\ pc' = <<"keystone", "bootstrap">>
    /\ UNCHANGED <<inputs, files, identity, super, exitCode, run>>

\* run_command(['keystone-manage', 'db_sync'])
KeystoneSyncStep ==
    /\ pc = <<"keystone", "dbsync">>
    /\ \E ok \in Outcomes :
          /\ Charge(ok)
          /\ mig' = [mig EXCEPT !["keystone"] = [tool |-> "native", ok |-> ok]]
          /\ IF ok THEN pc' = <<"keystone", "bootstrap">> /\ UNCHANGED exitCode
                   ELSE Exit(1)
    /\ UNCHANGED <<inputs, files, identity, super, run>>

\* an identity stage that ends without the credential bootstrap
KeystoneBootstrapNoCreds ==
    /\ pc = <<"keystone", "bootstrap">>
    /\ \E ok \in Outcomes :
          /\ Charge(ok)
          /\ IF ok THEN /\ pc' = <<"glance", "merge">>
                        /\ ident' = [ident EXCEPT !.admin = TRUE]
                        /\ UNCHANGED exitCode
                   ELSE Exit(1) /\ UNCHANGED ident
    /\ UNCHANGED <<inputs, files, ksUp, boot, mig, super, run>>

\* an identity stage that starts the gateway before the credential bootstrap
KeystoneBootstrapServe ==
    /\ pc = <<"keystone", "bootstrap">>
    /\ \E ok \in Outcomes :
          /\ Charge(ok)
          /\ IF ok THEN /\ pc' = <<"boot", "project">>
                        /\ ksUp' = TRUE
                        /\ ident' = [ident EXCEPT !.admin = TRUE]
                        /\ procs' = [procs EXCEPT !["gateway"] =
                                        [launched |-> 1, alive |-> TRUE, termReq |-> FALSE]]
                        /\ UNCHANGED exitCode
                   ELSE Exit(1) /\ UNCHANGED <<ident, ksUp, procs>>
    /\ boot' = [i |-> 1, pending |-> NoCred]
    /\ UNCHANGED <<inputs, files, mig, missed, run>>

\* run_command(bootstrap_cmd); the endpoint the bootstrap will talk to may answer or not
KeystoneBootstrapStep ==
    /\ pc = <<"keystone", "bootstrap">>
    /\ \E ok \in Outcomes :
          /\ Charge(ok)
          /\ IF ok THEN /\ pc' = <<"boot", "project">>
                        /\ ksUp' \in BOOLEAN
                        /\ ident' = [ident EXCEPT !.admin = TRUE]
                        /\ UNCHANGED exitCode
                   ELSE Exit(1) /\ UNCHANGED <<ident, ksUp>>
    /\ boot' = [i |-> 1, pending |-> NoCred]
    /\ UNCHANGED <<inputs, files, mig, super, run>>

----------------------------------------------------------------------------
(* create_application_credentials *)

NumTab == <<"1", "2", "3", "4", "5", "6", "7", "8", "9">>
Num(n) == IF n \in 1..Len(NumTab) THEN NumTab[n] ELSE "many"

\* manager.find(name=...): the object, or an exception (NotFound, NoUniqueMatch,
\* or the endpoint not answering)
Find(count, up) == IF up /\ count = 1 THEN "found" ELSE "raise"

\* what one lookup can give: the result above, or an exception although the
\* object exists (a request that fails while the endpoint goes on answering)
LookupOutcomes(count, up) ==
    {Find(count, up)} \cup (IF CanFail /\ Find(count, up) = "found" THEN {"raise"} ELSE {})

\* manager.create(name=...): names are unique in the identity service, a create
\* of an existing name is answered with Conflict
Create(count, up) ==
    IF ~up THEN "raise" ELSE IF count = 0 THEN "created" ELSE "conflict"

\* the except-branch of a lookup is the one that creates
NeedCreateAlways(found) == TRUE

NeedCreate(found) == found = "raise"

\* the identity endpoint stops answering
KsDown ==
    /\ pc[1] = "boot"
    /\ ksUp
    /\ CanFail
    /\ ksUp' = FALSE
    /\ faults' = faults + 1
    /\ UNCHANGED <<inputs, files, ident, boot, mig, super, pc, exitCode, run>>

\* the outer except: the error is logged and the function returns
BootReturn == <<"glance", "merge">>

BootProjectStep ==
    /\ pc = <<"boot", "project">>
    /\ \E found \in LookupOutcomes(ident.project, ksUp) :
          /\ Charge(found = Find(ident.project, ksUp))
          /\ IF NeedCreate(found)
             THEN IF Create(ident.project, ksUp) = "created"
                  THEN ident' = [ident EXCEPT !.project = @ + 1] /\ pc' = <<"boot", "role">>
                  ELSE UNCHANGED ident /\ pc' = BootReturn
             ELSE UNCHANGED ident /\ pc' = <<"boot", "role">>
    /\ UNCHANGED <<inputs, files, ksUp, boot, mig, super, exitCode, run>>

BootRoleStep ==
    /\ pc = <<"boot", "role">>
    /\ \E found \in LookupOutcomes(ident.role, ksUp) :
          /\ Charge(found = Find(ident.role, ksUp))
          /\ IF NeedCreate(found)
             THEN IF Create(ident.role, ksUp) = "created"
                  THEN ident' = [ident EXCEPT !.role = @ + 1] /\ pc' = <<"boot", "user">>
                  ELSE UNCHANGED ident /\ pc' = BootReturn
             ELSE UNCHANGED ident /\ pc' = <<"boot", "user">>
    /\ UNCHANGED <<inputs, files, ksUp, boot, mig, super, exitCode, run>>

BootService == BootServices[boot.i]

BootUserStep ==
    /\ pc = <<"boot", "user">>
    /\ LET s == BootService
       IN  \E found \in LookupOutcomes(ident.user[s], ksUp) :
              /\ Charge(found = Find(ident.user[s], ksUp))
              /\ IF NeedCreate(found)
                 THEN IF Create(ident.user[s], ksUp) = "created"
                      THEN ident' = [ident EXCEPT !.user[s] = @ + 1] /\ pc' = <<"boot", "grant">>
                      ELSE UNCHANGED ident /\ pc' = BootReturn
                 ELSE UNCHANGED ident /\ pc' = <<"boot", "grant">>
    /\ UNCHANGED <<inputs, files, ksUp, boot, mig, super, exitCode, run>>

\* a loop that goes from the principal to the issue without the grant
BootGrantSkipped ==
    /\ pc = <<"boot", "grant">>
    /\ pc' = <<"boot", "issue">>
    /\ UNCHANGED <<inputs, files, identity, mig, super, exitCode, run, faults>>

\* role_assignments.list(...) and roles.grant(...); an exception is only logged
BootGrantStep ==
    /\ pc = <<"boot", "grant">>
    /\ LET s == BootService
       IN  IF ksUp /\ ident.grant[s] = 0
           THEN ident' = [ident EXCEPT !.grant[s] = @ + 1]
           ELSE UNCHANGED ident
    /\ pc' = <<"boot", "issue">>
    /\ UNCHANGED <<inputs, files, ksUp, boot, mig, super, exitCode, run, faults>>

AppCredSecretVar(s) == ServiceVar(s, <<"APP", "_", "CRED", "_", "SECRET">>)

\* leaving the loop over the services at once
BootAbandon ==
    /\ boot' = [i |-> boot.i, pending |-> NoCred]
    /\ pc' = BootReturn

\* the next service of the loop, or the end of the function
BootAdvance ==
    IF boot.i < Len(BootServices)
    THEN /\ boot' = [i |-> boot.i + 1, pending |-> NoCred]
         /\ pc' = <<"boot", "user">>
    ELSE /\ boot' = [i |-> boot.i, pending |-> NoCred]
         /\ pc' = BootReturn

\* the service authenticates as itself, scoped to the service project, and
\* creates its application credential; a failure skips the service
BootIssueStep ==
    /\ pc = <<"boot", "issue">>
    /\ LET s == BootService
           able == ksUp /\ ident.user[s] > 0 /\ ident.grant[s] > 0 /\ ident.project > 0
       IN  \E ok \in (IF able THEN Outcomes ELSE {FALSE}) :
              /\ faults' = IF able /\ ~ok THEN faults + 1 ELSE faults
              /\ IF ok
                 THEN /\ ident' = [ident EXCEPT !.cred[s] = @ + 1]
                      /\ boot' = [boot EXCEPT
                            !.pending = [there |-> TRUE,
                                         id |-> <<"id", s, Num(ident.cred[s] + 1)>>,
                                         name |-> <<s, "-", Num(ident.cred[s] + 1)>>,
                                         secret |-> IF AppCredSecretVar(s) \in DOMAIN env
                                                    THEN <<env[AppCredSecretVar(s)]>>
                                                    ELSE <<"uuid", s, Num(ident.cred[s] + 1)>>]]
                      /\ pc' = <<"boot", "persist">>
                 ELSE UNCHANGED ident /\ BootAdvance
    /\ UNCHANGED <<inputs, files, ksUp, mig, super, exitCode, run>>

\* a loop that goes to the next service without writing the record
BootPersistSkipped ==
    /\ pc = <<"boot", "persist">>
    /\ BootAdvance
    /\ UNCHANGED <<inputs, files, ident, ksUp, mig, super, exitCode, run, faults>>

\* with open(f"{app_creds_dir}/{service_name}_app_cred.json", 'w') as f: ...
BootPersistStep ==
    /\ pc = <<"boot", "persist">>
    /\ credFile' = [credFile EXCEPT ![BootService] = boot.pending]
    /\ fmode' = [fmode EXCEPT ![BootService] = OpenForWrite(@, umask)]
    /\ BootAdvance
    /\ UNCHANGED <<inputs, cfgFile, db, ident, ksUp, mig, super, exitCode, run, faults>>

----------------------------------------------------------------------------
(* Schema migration dispatch *)

\* an order of the stages that goes from glance straight to the launch
NextStageEarlyStart(s) ==
    CASE s = "glance" -> <<"start", "launch">>
      [] s = "cinder" -> <<"neutron", "merge">>
      [] s = "neutron" -> <<"ironic", "merge">>
      [] s = "ironic" -> <<"nova", "merge">>
      [] s = "nova" -> <<"horizon", "settings">>

NextStage(s) ==
    CASE s = "glance" -> <<"cinder", "merge">>
      [] s = "cinder" -> <<"neutron", "merge">>
      [] s = "neutron" -> <<"ironic", "merge">>
      [] s = "ironic" -> <<"nova", "merge">>
      [] s = "nova" -> <<"horizon", "settings">>

\* glance-manage db_sync, cinder-manage db sync, ironic-dbsync create_schema:
\* a failure ends the entrypoint with sys.exit(1)
FatalMigrateStep(s) ==
    /\ s \in {"glance", "cinder", "ironic"}
    /\ pc = <<s, "migrate">>
    /\ \E ok \in Outcomes :
          /\ Charge(ok)
          /\ mig' = [mig EXCEPT ![s] = [tool |-> "native", ok |-> ok]]
          /\ IF ok THEN pc' = NextStage(s) /\ UNCHANGED exitCode
                   ELSE Exit(1)
    /\ UNCHANGED <<inputs, files, identity, super, run>>

\* neutron: is_sqlite is read from the config as it was before the wiring
NeutronIsSqlite(c) ==
    IF HasSection(c, <<"database">>) /\ HasOpt(c, <<"database">>, <<"connection">>)
    THEN ContainsSqlite(GetOpt(c, <<"database">>, <<"connection">>))
    ELSE TRUE

\* the embedded database files the direct procedures work on
Databases == {"neutron", "nova_api", "nova", "nova_cell0"}
NoDb == [tables |-> {}, marker |-> 0, routes |-> 0]

\* the tables of the model sets: BASEV2 of neutron, API_BASE and BASE of nova;
\* the routing table cell_mappings belongs to the API set
MarkerTable == "alembic_version"
RoutingTable == "cell_mappings"
NeutronTables == {"ports"}
ApiTables == {"cell_mappings", "request_specs"}
MainTables == {"instances"}

\* metadata.create_all(engine)
CreateAll(d, tabs) == [d EXCEPT !.tables = @ \cup tabs]

\* a stamp that inserts the heads whether or not the marker table is there
StampAlways(d, heads) ==
    [d EXCEPT !.tables = @ \cup {MarkerTable}, !.marker = @ + heads]

\* the marker table is created and gets one row per head unless it exists
Stamp(d, heads) ==
    IF MarkerTable \in d.tables
    THEN d
    ELSE [d EXCEPT !.tables = @ \cup {MarkerTable}, !.marker = heads]

\* the two routing rows: the table is looked for among the tables of the
\* cell0 database and its rows are read from and inserted into the main one
CellMappings(dbs) ==
    IF RoutingTable \in dbs["nova_cell0"].tables /\ dbs["nova"].routes = 0
    THEN [dbs EXCEPT !["nova"].routes = 2]
    ELSE dbs

\* the units of the direct procedure of a service, in their order
NeutronSchema(dbs) ==
    [dbs EXCEPT !["neutron"] = Stamp(CreateAll(@, NeutronTables), 2)]
NovaApiSchema(dbs) ==
    [dbs EXCEPT !["nova_api"] = Stamp(CreateAll(@, ApiTables), 1)]
NovaMainSchema(dbs) ==
    [dbs EXCEPT !["nova"] = Stamp(CreateAll(@, MainTables), 1)]
NovaCell0Schema(dbs) ==
    [dbs EXCEPT !["nova_cell0"] = Stamp(CreateAll(@, MainTables), 1)]

\* the direct procedure run up to its unit number k (all of it when k is the
\* number of its units, none of it when k is 0)
DirectUnits(s) == IF s = "neutron" THEN 1 ELSE 4
DirectUpTo(s, dbs, k) ==
    IF s = "neutron"
    THEN IF k >= 1 THEN NeutronSchema(dbs) ELSE dbs
    ELSE LET d1 == IF k >= 1 THEN NovaApiSchema(dbs) ELSE dbs
             d2 == IF k >= 2 THEN NovaMainSchema(d1) ELSE d1
             d3 == IF k >= 3 THEN NovaCell0Schema(d2) ELSE d2
         IN  IF k >= 4 THEN CellMappings(d3) ELSE d3

\* neutron and nova: the failure is logged and the stage ends normally; a
\* direct procedure that fails has run some of its units
LenientMigrateStep(s) ==
    /\ s \in {"neutron", "nova"}
    /\ pc = <<s, "migrate">>
    /\ LET c == ReadConfig(cfgFile[s])
           direct == IF s = "neutron" THEN NeutronIsSqlite(c)
                     ELSE ContainsSqlite(GetOpt(c, <<"database">>, <<"connection">>))
       IN  \E ok \in Outcomes :
              /\ Charge(ok)
              /\ mig' = [mig EXCEPT
                           ![s] = [tool |-> IF direct THEN "direct" ELSE "native", ok |-> ok]]
              /\ IF direct
                 THEN \E k \in (IF ok THEN {DirectUnits(s)} ELSE 0..(DirectUnits(s) - 1)) :
                         db' = DirectUpTo(s, db, k)
                 ELSE UNCHANGED db
    /\ pc' = NextStage(s)
    /\ UNCHANGED <<inputs, cfgFile, credFile, fmode, identity, super, exitCode, run>>

\* configure_horizon: the settings file, then collectstatic and compress
HorizonStep ==
    /\ pc = <<"horizon", "settings">>
    /\ \E ok \in Outcomes :
          /\ Charge(ok)
          /\ IF ok THEN pc' = <<"start", "launch">> /\ UNCHANGED exitCode
                   ELSE Exit(1)
    /\ UNCHANGED <<inputs, files, identity, mig, super, run>>

----------------------------------------------------------------------------
(* start_services *)

\* the Popen calls, in their order
ProcOrder == <<"gateway", "glance-api", "cinder-api", "neutron-server", "ironic-api",
               "nova-api", "nova-conductor", "nova-scheduler", "nova-compute">>
ProcNames == {ProcOrder[i] : i \in 1..Len(ProcOrder)}

NoProc == [launched |-> 0, alive |-> FALSE, termReq |-> FALSE]
Launched(p) == procs[p].launched > 0
Exited(p) == Launched(p) /\ ~procs[p].alive

\* a supervisor that starts a process whether or not it has an entry for it
LaunchStepAny ==
    /\ pc = <<"start", "launch">>
    /\ \E p \in ProcNames :
           /\ procs' = [procs EXCEPT ![p] =
                            [launched |-> @.launched + 1, alive |-> TRUE, termReq |-> FALSE]]
           /\ pc' = IF \A q \in ProcNames \ {p} : Launched(q)
                      THEN <<"start", "monitor">> ELSE pc
           /\ fmode' = [fmode EXCEPT ![GlueFile] = OpenForWrite(@, umask)]
    /\ UNCHANGED <<inputs, cfgFile, credFile, db, identity, mig, missed, exitCode, run, faults>>

\* subprocess.Popen(cmd), one per step; the module file of the gateway is
\* written before the first of them
LaunchStep ==
    /\ pc = <<"start", "launch">>
    /\ LET i == CHOOSE j \in 1..Len(ProcOrder) :
                    /\ ~Launched(ProcOrder[j])
                    /\ \A k \in 1..(j - 1) : Launched(ProcOrder[k])
       IN  /\ procs' = [procs EXCEPT ![ProcOrder[i]] =
                            [launched |-> @.launched + 1, alive |-> TRUE, termReq |-> FALSE]]
           /\ pc' = IF i = Len(ProcOrder) THEN <<"start", "monitor">> ELSE pc
           /\ fmode' = IF i = 1 THEN [fmode EXCEPT ![GlueFile] = OpenForWrite(@, umask)]
                                ELSE fmode
    /\ UNCHANGED <<inputs, cfgFile, credFile, db, identity, mig, missed, exitCode, run, faults>>

\* a managed process ends on its own
ProcExit(p) ==
    /\ Running
    /\ Launched(p)
    /\ procs[p].alive
    /\ CanFail
    /\ procs' = [procs EXCEPT ![p].alive = FALSE]
    /\ faults' = faults + 1
    /\ UNCHANGED <<inputs, files, identity, mig, missed, pc, exitCode, run>>

\* the chain of poll() tests of one pass: the first process found exited, or "none"
FirstExitedButLast(pr) ==
    IF \E i \in 1..(Len(ProcOrder) - 1) : ~pr[ProcOrder[i]].alive
    THEN ProcOrder[CHOOSE i \in 1..(Len(ProcOrder) - 1) :
                      /\ ~pr[ProcOrder[i]].alive
                      /\ \A k \in 1..(i - 1) : pr[ProcOrder[k]].alive]
    ELSE "none"

FirstExited(pr) ==
    IF \E i \in 1..Len(ProcOrder) : ~pr[ProcOrder[i]].alive
    THEN ProcOrder[CHOOSE i \in 1..Len(ProcOrder) :
                      /\ ~pr[ProcOrder[i]].alive
                      /\ \A k \in 1..(i - 1) : pr[ProcOrder[k]].alive]
    ELSE "none"

\* a pass that asks the remaining processes to terminate before it leaves
TickStepTerminate ==
    /\ pc = <<"start", "monitor">>
    /\ IF FirstExited(procs) = "none"
       THEN /\ missed' = (missed \/ \E p \in ProcNames : Exited(p))
            /\ UNCHANGED <<pc, exitCode, procs>>
       ELSE /\ Exit(1)
            /\ procs' = [p \in ProcNames |-> [procs[p] EXCEPT !.termReq = procs[p].alive]]
            /\ UNCHANGED missed
    /\ UNCHANGED <<inputs, files, identity, mig, run, faults>>

\* time.sleep(60) and one pass of the checks
TickStep ==
    /\ pc = <<"start", "monitor">>
    /\ IF FirstExited(procs) = "none"
       THEN /\ missed' = (missed \/ \E p \in ProcNames : Exited(p))
            /\ UNCHANGED <<pc, exitCode>>
       ELSE /\ Exit(1)
            /\ UNCHANGED missed
    /\ UNCHANGED <<inputs, files, identity, mig, procs, run, faults>>

\* KeyboardInterrupt inside the try block: terminate() on every process, then
\* start_services and main return
InterruptStep ==
    /\ pc = <<"start", "monitor">>
    /\ procs' = [p \in ProcNames |-> [procs[p] EXCEPT !.termReq = TRUE]]
    /\ Exit(0)
    /\ UNCHANGED <<inputs, files, identity, mig, missed, run, faults>>

\* KeyboardInterrupt while the processes are being started: nothing catches it
InterruptLaunchStep ==
    /\ pc = <<"start", "launch">>
    /\ Exit(1)
    /\ UNCHANGED <<inputs, files, identity, mig, super, run, faults>>

----------------------------------------------------------------------------
(* The container is started again: files and the identity database stay,   *)
(* the processes are gone.                                                 *)

Restart ==
    /\ ~Running
    /\ run < MaxRuns
    /\ run' = run + 1
    /\ pc' = <<"prepare", "dirs">>
    /\ exitCode' = -1
    /\ procs' = [p \in ProcNames |-> NoProc]
    /\ ksUp' = FALSE
    /\ boot' = [i |-> 1, pending |-> NoCred]
    /\ mig' = [s \in ConfigServices |-> [tool |-> "none", ok |-> FALSE]]
    /\ missed' = FALSE
    /\ UNCHANGED <<inputs, files, ident, faults>>

----------------------------------------------------------------------------
(* healthcheck.py: one GET of http://localhost/healthz, exit status 0 or 1 *)

HealthServices == {"glance", "nova"}

\* a value of the "services" map: a string, an object with a "status" member,
\* or anything else
ServiceEntries ==
    { [type |-> "str", status |-> "running"], [type |-> "str", status |-> "stopped"],
      [type |-> "dict", status |-> "running"], [type |-> "dict", status |-> "stopped"],
      [type |-> "other", status |-> "none"] }

\* the member "services" of the body: absent, a JSON object, or another JSON value
ServicesValues ==
    { [kind |-> k, entries |-> <<>>] : k \in {"absent", "null", "list"} }
    \cup { [kind |-> "map", entries |-> m]
           : m \in UNION { [S -> ServiceEntries] : S \in SUBSET HealthServices } }

NoServices == [kind |-> "absent", entries |-> <<>>]

\* the member "status" of the body; "none" when the body has no such member
StatusValues == {"none", "healthy", "unhealthy", "HEALTHY"}

\* the body: not JSON, a JSON value that is not an object, or an object
Bodies ==
    { [kind |-> k, status |-> "none", services |-> NoServices] : k \in {"garbage", "list"} }
    \cup { [kind |-> "object", status |-> st, services |-> sv]
           : st \in StatusValues, sv \in ServicesValues }

StatusCodes == {200, 204, 404, 503}

\* nothing listens on port 80
NoProbe == [reach |-> "refused", code |-> 0,
            body |-> [kind |-> "garbage", status |-> "none", services |-> NoServices]]

Probes == {NoProbe} \cup { [reach |-> "ok", code |-> c, body |-> b] : c \in StatusCodes, b \in Bodies }

\* urllib raises HTTPError for a status outside 2xx
HttpError(code) == code < 200 \/ code >= 300

\* the services the loop logs a warning for
NotRunning(entries) ==
    { s \in DOMAIN entries : entries[s].type \in {"str", "dict"} /\ entries[s].status # "running" }

\* a check that takes a service reported as not running for a failure
CheckHealthStrict(p) ==
    /\ p.reach = "ok"
    /\ p.code = 200
    /\ p.body.kind = "object"
    /\ p.body.status = "healthy"
    /\ p.body.services.kind \in {"absent", "map"}
    /\ NotRunning(p.body.services.entries) = {}

\* check_health(): every exception ends in "return False"
CheckHealth(p) ==
    IF p.reach # "ok" THEN FALSE                        \* URLError
    ELSE IF HttpError(p.code) THEN FALSE                \* HTTPError
    ELSE IF p.code # 200 THEN FALSE
    ELSE IF p.body.kind = "garbage" THEN FALSE          \* JSONDecodeError
    ELSE IF p.body.kind # "object" THEN FALSE           \* no attribute "get"
    ELSE IF p.body.status # "healthy" THEN FALSE
    ELSE IF p.body.services.kind = "absent" THEN TRUE
    ELSE IF p.body.services.kind # "map" THEN FALSE     \* no attribute "items"
    ELSE TRUE                                           \* the loop only logs

\* the program: sys.exit(0) if check_health() else sys.exit(1)
HealthStep ==
    /\ pc = <<"health", "check">>
    /\ Exit(IF CheckHealth(probe) THEN 0 ELSE 1)
    /\ UNCHANGED <<inputs, files, identity, mig, super, run, faults>>

----------------------------------------------------------------------------
(* The whole entrypoint *)

TemplateOpt == <<"tmpl">>
DbHostValue == "db.example.com"

\* the override variables NOVA_NEUTRON_USERNAME and <SERVICE>_DATABASE_CONNECTION
PeerUserOverride == ServiceVar("nova", <<"NEUTRON", "_", "USERNAME">>)
ConnectionOverride(s) == ServiceVar(s, <<"DATABASE", "_", "CONNECTION">>)

\* environments of the whole run: none of the variables, every service on an
\* external server, and the same with a secret, a peer password and overrides
\* of nova's [neutron] section and of the connections of glance and nova given
MainEnvs ==
    { EmptyMap,
      [n \in {DbHostVar(s) : s \in ConfigServices} |-> DbHostValue],
      [n \in {DbHostVar("nova"), AppCredSecretVar("glance"), PeerPasswordVar("ironic"),
              PeerUserOverride, ConnectionOverride("glance"), ConnectionOverride("nova")} |->
          IF n = DbHostVar("nova") THEN DbHostValue ELSE "s3cret"] }

MainTemplate ==
    [there |-> TRUE,
     content |-> (<<"database">> :> (<<"connection">> :> TemplateOpt)) @@ EmptyConfig]

\* every template in place, or the template of one service missing
MissingCases == {"none", "glance", "nova"}
MainTemplates ==
    {[s \in ConfigServices |->
         IF s = m THEN [there |-> FALSE, content |-> EmptyConfig] ELSE MainTemplate]
     : m \in MissingCases}

\* the key files before the first run: none, or files left on the volume with
\* the mode of an ordinary file
KeyCases == {"absent", "0644"}

InitRest ==
    /\ db = [d \in Databases |-> NoDb]
    /\ ident = [admin |-> FALSE, project |-> 0, role |-> 0,
                user |-> [s \in CredServices |-> 0],
                grant |-> [s \in CredServices |-> 0],
                cred |-> [s \in CredServices |-> 0]]
    /\ ksUp = FALSE
    /\ boot = [i |-> 1, pending |-> NoCred]
    /\ mig = [s \in ConfigServices |-> [tool |-> "none", ok |-> FALSE]]
    /\ procs = [p \in ProcNames |-> NoProc]
    /\ exitCode = -1
    /\ run = 1
    /\ faults = 0
    /\ missed = FALSE

Init ==
    /\ env \in MainEnvs
    /\ templ \in MainTemplates
    /\ cfgFile = [s \in ConfigServices |-> NoFile]
    /\ credFile = [s \in CredServices |-> NoCred]
    /\ umask \in Umasks
    /\ \E k \in KeyCases : fmode = [f \in ModeFiles |-> IF f \in KeyFiles THEN k ELSE "absent"]
    /\ probe = NoProbe
    /\ pc = <<"prepare", "dirs">>
    /\ InitRest

Next ==
    \/ PrepareStep
    \/ \E s \in ConfigServices : MergeStep(s)
    \/ \E s \in ConfigServices : DbStep(s)
    \/ EnableAppCredStep
    \/ KeystoneSyncStep
    \/ KeystoneBootstrapStep
    \/ KsDown
    \/ BootProjectStep
    \/ BootRoleStep
    \/ BootUserStep
    \/ BootGrantStep
    \/ BootIssueStep
    \/ BootPersistStep
    \/ \E s \in ConfigServices : WireStep(s)
    \/ NovaStep
    \/ \E s \in ConfigServices : FatalMigrateStep(s)
    \/ \E s \in ConfigServices : LenientMigrateStep(s)
    \/ HorizonStep
    \/ LaunchStep
    \/ \E p \in ProcNames : ProcExit(p)
    \/ TickStep
    \/ InterruptStep
    \/ InterruptLaunchStep
    \/ Restart

Spec == Init /\ [][Next]_vars

----------------------------------------------------------------------------
(* Specification of merge_config alone: the environment and the template   *)
(* are drawn from bounded sets and merge_config is applied once.           *)

MergeService == "glance"

MergeRemainders ==
    { <<>>,                                  \* GLANCE_
      <<"A">>,                               \* no delimiter
      <<"A", "_", "B">>,
      <<"a", "_", "B">>,                     \* same key after lower-casing
      <<"A", "_", "C">>,
      <<"_", "B">>,                          \* empty section part
      <<"A", "_">>,                          \* empty option part
      <<"_">>,                               \* both parts empty
      <<"A", "_", "B", "_", "C">>,           \* more than one delimiter
      <<"DATABASE", "_", "CONNECTION">> }

MergeNames ==
    {ServiceVar(MergeService, r) : r \in MergeRemainders}
        \cup { <<"glance", "_", "A", "_", "B">>,      \* prefix in lower case
               <<"NOVA", "_", "A", "_", "B">>,        \* another service
               <<"GLANCE">> }                         \* shorter than the prefix

MergeValues == {"v1", "v2"}

MergeEnvs ==
    UNION {[N -> MergeValues] : N \in {M \in SUBSET MergeNames : Cardinality(M) <= MaxEnvVars}}

MergeTemplates ==
    { [there |-> FALSE, content |-> EmptyConfig],
      [there |-> TRUE, content |-> EmptyConfig],
      [there |-> TRUE, content |-> (<<"database">> :> EmptyMap) @@ EmptyConfig],
      [there |-> TRUE,
       content |-> (<<"database">> :> (<<"connection">> :> TemplateOpt))
                   @@ (<<"a">> :> (<<"b">> :> TemplateOpt)) @@ EmptyConfig],
      [there |-> TRUE,                       \* a section named with the delimiter
       content |-> (<<"a", "_", "b">> :> (<<"c">> :> TemplateOpt)) @@ EmptyConfig] }

InitMerge ==
    /\ env \in MergeEnvs
    /\ \E t \in MergeTemplates : templ = [s \in ConfigServices |-> t]
    /\ cfgFile = [s \in ConfigServices |-> NoFile]
    /\ credFile = [s \in CredServices |-> NoCred]
    /\ umask = "022"
    /\ fmode = [f \in ModeFiles |-> "absent"]
    /\ probe = NoProbe
    /\ pc = <<MergeService, "merge">>
    /\ InitRest

NextMerge == MergeStep(MergeService)

SpecMerge == InitMerge /\ [][NextMerge]_vars

----------------------------------------------------------------------------
(* Specification of the database resolver alone: the environment and the   *)
(* configuration left by merge_config are drawn from bounded sets, and the *)
(* resolver is applied to one service; for nova, configure_nova goes on to *)
(* the API database.                                                       *)

DbTypes == {Unset, "sqlite", "SQLITE", "postgresql"}
DbHosts == {Unset, "localhost", "LOCALHOST", DbHostValue}
DbUsers == {Unset, "u1"}
DbPasswords == {Unset, "p1"}
DbNames == {Unset, "n1", "db_sqlite"}
ApiHosts == {Unset, "localhost", "api.example.com"}

\* the environment that sets exactly the variables given a value
EnvOf(assign) == [n \in {m \in DOMAIN assign : assign[m] # Unset} |-> assign[n]]

DbEnvs(s) ==
    { EnvOf((DefaultDbTypeVar :> t) @@ (DbHostVar(s) :> h) @@ (DbUserVar(s) :> u)
            @@ (DbPasswordVar(s) :> p) @@ (DbNameVar(s) :> n))
      : t \in DbTypes, h \in DbHosts, u \in DbUsers, p \in DbPasswords, n \in DbNames }

ApiEnvs ==
    { EnvOf((ApiDbHostVar :> h) @@ (ApiDbUserVar :> u) @@ (ApiDbPasswordVar :> p)
            @@ (ApiDbNameVar :> n))
      : h \in ApiHosts, u \in {Unset, "au"}, p \in {Unset, "ap"}, n \in {Unset, "an"} }

\* what merge_config may have left in [database]
MergedConfigs ==
    { EmptyConfig,
      (<<"database">> :> (<<"connection">> :> <<"bar">>)) @@ EmptyConfig }

InitDb ==
    /\ \E s \in ConfigServices :
          /\ pc = <<s, "db">>
          /\ \E e \in DbEnvs(s), a \in (IF s = "nova" THEN ApiEnvs ELSE {EmptyMap}) :
                env = a @@ e
          /\ \E c \in MergedConfigs :
                cfgFile = [x \in ConfigServices |-> IF x = s THEN WriteConfig(c) ELSE NoFile]
    /\ templ = [s \in ConfigServices |-> MainTemplate]
    /\ credFile = [s \in CredServices |-> NoCred]
    /\ umask = "022"
    /\ fmode = [f \in ModeFiles |-> IF f \in KeyFiles THEN "0600" ELSE "absent"]
    /\ probe = NoProbe
    /\ InitRest

NextDb ==
    \/ \E s \in ConfigServices : DbStep(s)
    \/ WireStep("nova")
    \/ NovaStep

SpecDb == InitDb /\ [][NextDb]_vars

----------------------------------------------------------------------------
(* Specification of the health-check program alone: the answer of the probe *)
(* is drawn from a bounded set; pc and exitCode are those of healthcheck.py *)

InitHealth ==
    /\ probe \in Probes
    /\ env = EmptyMap
    /\ templ = [s \in ConfigServices |-> MainTemplate]
    /\ cfgFile = [s \in ConfigServices |-> NoFile]
    /\ credFile = [s \in CredServices |-> NoCred]
    /\ umask = "022"
    /\ fmode = [f \in ModeFiles |-> "absent"]
    /\ pc = <<"health", "check">>
    /\ InitRest

NextHealth == HealthStep

SpecHealth == InitHealth /\ [][NextHealth]_vars

----------------------------------------------------------------------------
(* Properties of merge_config *)

\* merge_config has just written the config of s
MergeDone(s) == pc = <<s, "db">>

Remainder(s, key) == SubSeq(key, Len(ServicePrefix(s)) + 1, Len(key))

\* <SERVICE>_<SECTION>_<OPTION> with both parts non-empty
WellFormed(s, key) ==
    /\ StartsWith(key, ServicePrefix(s))
    /\ Len(SplitFirst(Remainder(s, key))) = 2
    /\ SplitFirst(Remainder(s, key))[1] # <<>>
    /\ SplitFirst(Remainder(s, key))[2] # <<>>

SectionOf(s, key) == LowerSeq(SplitFirst(Remainder(s, key))[1])
OptionOf(s, key) == LowerSeq(SplitFirst(Remainder(s, key))[2])

\* the variables of s that address the same section and option as key
Rivals(s, key) ==
    {k \in DOMAIN env : /\ WellFormed(s, k)
                        /\ SectionOf(s, k) = SectionOf(s, key)
                        /\ OptionOf(s, k) = OptionOf(s, key)}

\* C1 as stated: after merge_config, every variable <SERVICE>_<SECTION>_<OPTION>=V
\* with both parts non-empty has config[lower(SECTION)][lower(OPTION)] = V.
C1_EveryOverrideApplied ==
    \A s \in ConfigServices :
        MergeDone(s) =>
            \A k \in DOMAIN env :
                WellFormed(s, k) =>
                    /\ HasSection(cfgFile[s].content, SectionOf(s, k))
                    /\ OptionOf(s, k) \in DOMAIN cfgFile[s].content[SectionOf(s, k)]
                    /\ cfgFile[s].content[SectionOf(s, k)][OptionOf(s, k)] = <<env[k]>>

\* C1 amended: after merge_config, for every such variable the option exists in
\* the section and holds the value of a variable that lower-cases to the same
\* section and option; it is V when no other variable does, whatever the
\* template held.
C1_OverrideApplied ==
    \A s \in ConfigServices :
        MergeDone(s) =>
            \A k \in DOMAIN env :
                WellFormed(s, k) =>
                    /\ cfgFile[s].there
                    /\ HasSection(cfgFile[s].content, SectionOf(s, k))
                    /\ OptionOf(s, k) \in DOMAIN cfgFile[s].content[SectionOf(s, k)]
                    /\ \E r \in Rivals(s, k) :
                          cfgFile[s].content[SectionOf(s, k)][OptionOf(s, k)] = <<env[r]>>

\* a template value was replaced by the value of an override, and a section
\* the template lacks was created for another
C1_Witness ==
    /\ MergeDone(MergeService)
    /\ templ[MergeService].there
    /\ <<"a">> \in DOMAIN templ[MergeService].content
    /\ ServiceVar(MergeService, <<"A", "_", "B">>) \in DOMAIN env
    /\ Cardinality(DOMAIN env) = 1
    /\ cfgFile[MergeService].content[<<"a">>][<<"b">>]
          = <<env[ServiceVar(MergeService, <<"A", "_", "B">>)]>>
    /\ cfgFile[MergeService].content[<<"a">>][<<"b">>] # TemplateOpt

\* C2 as stated: a variable of the service whose remainder does not split into
\* two non-empty parts adds or changes no section and no option; every section and
\* option of the merged config comes from the template or from a variable
\* with two non-empty parts.
C2_IllFormedIgnored ==
    \A s \in ConfigServices :
        MergeDone(s) =>
            LET c == cfgFile[s].content
                t == ReadConfig(templ[s])
            IN  \A sec \in DOMAIN c :
                  /\ \/ sec \in DOMAIN t
                     \/ \E k \in DOMAIN env : WellFormed(s, k) /\ SectionOf(s, k) = sec
                  /\ \A o \in DOMAIN c[sec] :
                        \/ sec \in DOMAIN t /\ o \in DOMAIN t[sec] /\ c[sec][o] = t[sec][o]
                        \/ \E k \in DOMAIN env :
                              /\ WellFormed(s, k)
                              /\ SectionOf(s, k) = sec
                              /\ OptionOf(s, k) = o
                              /\ c[sec][o] = <<env[k]>>

\* C3 as stated: a service whose template cannot be read gets no config file
\* and no later stage runs.
C3_MissingTemplateAborts ==
    \A s \in ConfigServices :
        ~templ[s].there => (~cfgFile[s].there /\ pc # <<s, "db">>)

----------------------------------------------------------------------------
(* Properties of the database resolver *)

\* configure_database_connection has just written the config of s
DbDone(s) == pc = (IF s = "keystone" THEN <<"keystone", "appcred">> ELSE <<s, "wire">>)

Connection(s) == cfgFile[s].content[<<"database">>][<<"connection">>]
IsEmbedded(conn) == conn[1] = "sqlite:///"

HostUnset(s) == DbHostVar(s) \notin DOMAIN env
HostLocal(s) == EnvGet(env, DbHostVar(s)) = "localhost"

\* C4 as stated: the embedded backend is chosen exactly when the host is unset,
\* the default database type is 'sqlite', or the host is 'localhost'.
C4_EmbeddedIffRule ==
    \A s \in ConfigServices :
        DbDone(s) =>
            (IsEmbedded(Connection(s))
                <=> (HostUnset(s) \/ EnvGet(env, DefaultDbTypeVar) = "sqlite" \/ HostLocal(s)))

\* C4 amended: the embedded backend is chosen exactly when the host is unset, the
\* default database type is 'sqlite' in any letter case, or the host is
\* 'localhost'; the connection is then the file of the service, whatever the
\* user, password and name variables hold.
C4_EmbeddedIffRuleAnyCase ==
    \A s \in ConfigServices :
        DbDone(s) =>
            LET rule == \/ HostUnset(s)
                        \/ EnvGet(env, DefaultDbTypeVar) \in {"sqlite", "SQLite", "SQLITE"}
                        \/ HostLocal(s)
            IN  /\ IsEmbedded(Connection(s)) <=> rule
                /\ rule => Connection(s) = <<"sqlite:///", "/var/lib/openstack/", s, ".sqlite">>

\* the host is 'localhost', the other variables are set, the backend is embedded
C4_Witness ==
    /\ DbDone("cinder")
    /\ HostLocal("cinder")
    /\ DefaultDbTypeVar \notin DOMAIN env
    /\ {DbUserVar("cinder"), DbPasswordVar("cinder"), DbNameVar("cinder")} \subseteq DOMAIN env
    /\ IsEmbedded(Connection("cinder"))

\* C5: when no embedded rule matches, the connection is the PostgreSQL string
\* made of the user, the password, the host and the name, each of user,
\* password and name being the lower-cased service name when unset.
C5_ExternalConnection ==
    \A s \in ConfigServices :
        (/\ DbDone(s)
         /\ ~HostUnset(s)
         /\ ~HostLocal(s)
         /\ EnvGet(env, DefaultDbTypeVar) \notin {"sqlite", "SQLite", "SQLITE"}) =>
            Connection(s) =
                <<"postgresql://",
                  IF DbUserVar(s) \in DOMAIN env THEN env[DbUserVar(s)] ELSE s,
                  ":",
                  IF DbPasswordVar(s) \in DOMAIN env THEN env[DbPasswordVar(s)] ELSE s,
                  "@",
                  env[DbHostVar(s)],
                  "/",
                  IF DbNameVar(s) \in DOMAIN env THEN env[DbNameVar(s)] ELSE s>>

\* an external host with a user given and the password left to its default
C5_Witness ==
    /\ DbDone("glance")
    /\ EnvGet(env, DbHostVar("glance")) = DbHostValue
    /\ DefaultDbTypeVar \notin DOMAIN env
    /\ DbUserVar("glance") \in DOMAIN env
    /\ DbPasswordVar("glance") \notin DOMAIN env
    /\ Connection("glance")[1] = "postgresql://"
    /\ Connection("glance")[4] = "glance"

\* configure_nova has just written the API database
NovaDone == pc = <<"nova", "migrate">>

\* C6: whenever nova's database.connection is embedded, api_database.connection
\* is embedded too, whatever the NOVA_API_DB_* variables hold.
C6_ApiFollowsPrimary ==
    (NovaDone /\ IsEmbedded(Connection("nova"))) =>
        /\ HasSection(cfgFile["nova"].content, ApiSection)
        /\ IsEmbedded(cfgFile["nova"].content[ApiSection][<<"connection">>])

\* primary embedded although the API variables name an external server
C6_Witness ==
    /\ NovaDone
    /\ IsEmbedded(Connection("nova"))
    /\ EnvGet(env, ApiDbHostVar) = "api.example.com"
    /\ {ApiDbUserVar, ApiDbPasswordVar, ApiDbNameVar} \subseteq DOMAIN env
    /\ IsEmbedded(cfgFile["nova"].content[ApiSection][<<"connection">>])

----------------------------------------------------------------------------
(* Properties of the credential bootstrap and of the wiring *)

NoDuplicates ==
    /\ ident.project <= 1
    /\ ident.role <= 1
    /\ \A s \in CredServices : ident.user[s] <= 1 /\ ident.grant[s] <= 1

\* a lookup-or-create step on an object that exists, whose lookup is answered:
\* the object is reused, nothing is created and the bootstrap goes on
Reused ==
    /\ (pc = <<"boot", "project">> /\ ksUp /\ ident.project = 1 /\ faults' = faults)
          => (ident' = ident /\ pc' = <<"boot", "role">>)
    /\ (pc = <<"boot", "role">> /\ ksUp /\ ident.role = 1 /\ faults' = faults)
          => (ident' = ident /\ pc' = <<"boot", "user">>)
    /\ (pc = <<"boot", "user">> /\ ksUp /\ ident.user[BootService] = 1 /\ faults' = faults)
          => (ident' = ident /\ pc' = <<"boot", "grant">>)
    /\ (pc = <<"boot", "grant">> /\ ksUp /\ ident.grant[BootService] = 1 /\ faults' = faults)
          => (ident' = ident /\ pc' = <<"boot", "issue">>)

\* C7: over any number of runs the identity service holds at most one project
\* 'service', one role 'service', one principal per service name and one grant
\* per principal; a run against objects an earlier run created reuses them.
C7_NoDuplicates == []NoDuplicates /\ [][Reused]_vars

\* a second run has gone through the whole bootstrap against the objects of
\* the first and has issued a second credential to every service
C7_Witness ==
    /\ run = 2
    /\ pc = BootReturn
    /\ ksUp
    /\ ident.project = 1
    /\ ident.role = 1
    /\ \A s \in CredServices :
          ident.user[s] = 1 /\ ident.grant[s] = 1 /\ ident.cred[s] = 2

\* the services wired by configure_service_with_application_credential
Dependent == {"glance", "cinder", "neutron", "ironic", "nova"}

\* the wiring of s has just run
WireDone(s) == pc = (IF s = "nova" THEN <<"nova", "peers">> ELSE <<s, "migrate">>)

PasswordOpts ==
    { <<"username">>, <<"password">>, <<"project", "_", "name">>,
      <<"user", "_", "domain", "_", "name">>, <<"project", "_", "domain", "_", "name">> }

IdOpt == <<"application", "_", "credential", "_", "id">>
SecretOpt == <<"application", "_", "credential", "_", "secret">>

\* C8: after the wiring of a service whose credential record exists,
\* keystone_authtoken has the application-credential auth type, the id and the
\* secret of the record, and none of the password fields.
C8_WiredFromRecord ==
    \A s \in Dependent :
        (WireDone(s) /\ credFile[s].there) =>
            LET c == cfgFile[s].content
            IN  /\ HasSection(c, AuthSection)
                /\ {<<"auth", "_", "type">>, IdOpt, SecretOpt} \subseteq DOMAIN c[AuthSection]
                /\ c[AuthSection][<<"auth", "_", "type">>] = AppCredType
                /\ c[AuthSection][IdOpt] = credFile[s].id
                /\ c[AuthSection][SecretOpt] = credFile[s].secret
                /\ DOMAIN c[AuthSection] \cap PasswordOpts = {}

\* glance was wired from the record the bootstrap of this run persisted, its
\* secret taken from GLANCE_APP_CRED_SECRET
C8_Witness ==
    /\ WireDone("glance")
    /\ credFile["glance"].there
    /\ AppCredSecretVar("glance") \in DOMAIN env
    /\ HasSection(cfgFile["glance"].content, AuthSection)
    /\ cfgFile["glance"].content[AuthSection][IdOpt] = <<"id", "glance", "1">>
    /\ cfgFile["glance"].content[AuthSection][SecretOpt] = <<env[AppCredSecretVar("glance")]>>

\* C9 as stated: after the wiring of a service whose credential record is
\* absent, keystone_authtoken holds the password fields, the user being the
\* service name.
C9_PasswordFallback ==
    \A s \in Dependent :
        (WireDone(s) /\ ~credFile[s].there) =>
            LET c == cfgFile[s].content
            IN  /\ HasSection(c, AuthSection)
                /\ PasswordOpts \subseteq DOMAIN c[AuthSection]
                /\ c[AuthSection][<<"username">>] = <<s>>

----------------------------------------------------------------------------
(* Properties of the supervisor *)

Interrupted == \E p \in ProcNames : procs[p].termReq
Left == pc = <<"exit", "done">>

InterruptArrives ==
    /\ InterruptStep \/ InterruptLaunchStep
    /\ \E p \in ProcNames : Launched(p)

\* C11 as stated: whenever the interrupt arrives from the first launch onward,
\* the entrypoint leaves with a termination request sent to every process it
\* has launched, whether or not they are still alive.
C11_InterruptTerminatesLaunched ==
    [][InterruptArrives =>
          /\ ~Running'
          /\ \A p \in ProcNames : Launched(p) => procs'[p].termReq]_vars

----------------------------------------------------------------------------
(* Properties of the migration dispatch and of the fatal stages *)

Migrated(s) == mig[s].tool # "none"

\* the step is the schema migration of s, and it failed
MigrationFails(s) == pc = <<s, "migrate">> /\ mig'[s].tool # "none" /\ ~mig'[s].ok

\* C12 as stated: the step on which the migration of a dependent service
\* fails leaves the entrypoint running and takes it to the next stage.
C12_MigrationFailureNonFatal ==
    [][\A s \in Dependent : MigrationFails(s) => (Running' /\ pc' = NextStage(s))]_vars

\* C13 as stated: a service whose connection resolved to the embedded file has
\* its schema made by the direct procedure, one whose connection resolved to
\* the external server by its native migration tool.
C13_DispatchFollowsBackend ==
    \A s \in Dependent :
        Migrated(s) =>
            (mig[s].tool = (IF IsEmbedded(Connection(s)) THEN "direct" ELSE "native"))

----------------------------------------------------------------------------
(* Properties of the failures of the identity stage *)

SharedStep == pc \in {<<"boot", "project">>, <<"boot", "role">>}

\* the lookup and the create of the shared project or role both fail: the
\* administrative session gets no answer from the identity endpoint
SharedFails == SharedStep /\ ~ksUp /\ pc' # pc

\* C14 as stated: a failure of the administrative session or of the shared
\* project or role ends the entrypoint at once with a non-zero status.
C14_SharedFailureFatal ==
    [][SharedFails => (~Running' /\ exitCode' # 0)]_vars

\* the schema sync or the administrator bootstrap command fails
KeystoneCommandFails ==
    /\ pc \in {<<"keystone", "dbsync">>, <<"keystone", "bootstrap">>}
    /\ faults' # faults

\* the credential bootstrap is entered
BootStarts == pc' = <<"boot", "project">> /\ pc # pc'

\* C15: a failed schema sync or administrator bootstrap command ends the
\* entrypoint with status 1 on that very step, and an ended entrypoint does
\* nothing more until the container is started again; the credential bootstrap
\* is entered only from the administrator bootstrap command, after both
\* commands succeeded, and once past the identity stage a run never enters it
\* again.
C15_IdentityFailureFatal ==
    [][/\ KeystoneCommandFails =>
             /\ ~Running'
             /\ exitCode' = 1
             /\ UNCHANGED <<files, ident, boot, procs>>
       /\ ~Running => (run' = run + 1 /\ pc' = <<"prepare", "dirs">>)
       /\ BootStarts =>
             /\ pc = <<"keystone", "bootstrap">>
             /\ mig["keystone"] = [tool |-> "native", ok |-> TRUE]
             /\ faults' = faults
             /\ ident'.admin
       /\ pc[1] \notin {"prepare", "keystone"} => pc'[1] # "keystone"]_vars

\* the first run ended with status 1 on the administrator bootstrap command,
\* after a successful schema sync: nothing was bootstrapped, configured or launched
C15_Witness ==
    /\ run = 1
    /\ Left
    /\ exitCode = 1
    /\ mig["keystone"].ok
    /\ ~ident.admin
    /\ \A s \in Dependent : ~cfgFile[s].there
    /\ \A p \in ProcNames : ~Launched(p)

\* the issue of the application credential of the current service fails
IssueFails == pc = <<"boot", "issue">> /\ pc' # pc /\ ident'.cred = ident.cred

\* C16: when the issue of a service's credential fails no record file is
\* written, the entrypoint goes on running, and the loop goes to the next
\* service of the list (to the end of the bootstrap after the last one).
C16_IssueFailureSkips ==
    [][IssueFails =>
          /\ credFile' = credFile
          /\ Running'
          /\ IF boot.i < Len(BootServices)
             THEN pc' = <<"boot", "user">> /\ boot'.i = boot.i + 1
             ELSE pc' = BootReturn]_vars

\* in the first run the credential of glance was not issued and the one of
\* cinder, next in the list, was issued and persisted
C16_Witness ==
    /\ run = 1
    /\ Running
    /\ ident.cred["glance"] = 0
    /\ ~credFile["glance"].there
    /\ ident.user["glance"] = 1
    /\ credFile["cinder"].there

\* the create call of a lookup-or-create step meets an object that exists (its
\* lookup failed although the object is there)
AlreadyExists ==
    /\ ksUp
    /\ faults' # faults
    /\ pc' # pc
    /\ \/ pc = <<"boot", "project">> /\ ident.project = 1
       \/ pc = <<"boot", "role">> /\ ident.role = 1
       \/ pc = <<"boot", "user">> /\ ident.user[BootService] = 1

\* C17 as stated: an 'already exists' answer to a create is taken as success,
\* the bootstrap goes on to its next step with the existing object.
C17_AlreadyExistsTolerated ==
    [][AlreadyExists =>
          /\ ident' = ident
          /\ pc' = (CASE pc[2] = "project" -> <<"boot", "role">>
                      [] pc[2] = "role" -> <<"boot", "user">>
                      [] pc[2] = "user" -> <<"boot", "grant">>)]_vars

----------------------------------------------------------------------------
(* Properties of the credential records *)

\* the id of the credential issued last for s
Latest(s) == <<"id", s, Num(ident.cred[s])>>

\* the services whose last issued credential is in no record file
Unrecorded ==
    {s \in CredServices :
        ident.cred[s] > 0 /\ (~credFile[s].there \/ credFile[s].id # Latest(s))}

\* C18: the record of a service's credential is in its file before any
\* identity operation for the next service begins: the only credential ever
\* without a record is the one of the current service, between its issue and
\* the write of its file.
C18_RecordBeforeNext ==
    /\ Cardinality(Unrecorded) <= 1
    /\ Unrecorded # {} => (pc = <<"boot", "persist">> /\ Unrecorded = {BootService})

\* the credential of cinder is issued and not yet written, the one of glance
\* is in its file
C18_Witness ==
    /\ pc = <<"boot", "persist">>
    /\ BootService = "cinder"
    /\ Unrecorded = {"cinder"}
    /\ credFile["glance"].there
    /\ credFile["glance"].id = Latest("glance")

\* C19 as stated: a credential record file has owner-only read/write
\* permissions from its creation on, so also when the processes are started.
C19_RecordsOwnerOnly ==
    \A s \in CredServices : credFile[s].there => fmode[s] = "0600"

\* C20: once a service process has been started both key files exist with
\* owner-only read/write permissions.
C20_KeysOwnerOnly ==
    (\E p \in ProcNames : Launched(p)) => \A k \in KeyFiles : fmode[k] = "0600"

\* the gateway is started in a first run whose mask would have left the keys
\* readable by others
C20_Witness ==
    /\ run = 1
    /\ umask = "022"
    /\ Launched("gateway")
    /\ \A k \in KeyFiles : fmode[k] = "0600"

----------------------------------------------------------------------------
(* Properties of the order of the stages *)

\* a process is launched on this step
Launches == \E p \in ProcNames : procs'[p].launched > procs[p].launched

\* the migration dispatch of s runs on this step
Dispatches(s) == ~Migrated(s) /\ Migrated(s)'

\* the configuration file of s is written on this step
Writes(s) == cfgFile'[s] # cfgFile[s]

\* C21: the configuration file of a service is in place when its migration
\* dispatch starts and is not written again once the dispatch has run; the
\* dispatch of every service has run, whatever its result, and the settings
\* of the dashboard are done, when the first process is launched; nothing is
\* dispatched once a process is launched.
C21_StageOrder ==
    /\ [](\A s \in ConfigServices :
              (Migrated(s) \/ pc = <<s, "migrate">>) => cfgFile[s].there)
    /\ [][/\ \A s \in ConfigServices :
                /\ Writes(s) => (~Migrated(s) /\ ~Migrated(s)' /\ ~\E p \in ProcNames : Launched(p))
                /\ Dispatches(s) => (cfgFile[s].there /\ ~Writes(s)
                                       /\ ~\E p \in ProcNames : Launched(p) /\ ~Launches)
          /\ Launches => (pc = <<"start", "launch">> /\ \A s \in ConfigServices : Migrated(s))]_vars

\* all nine processes run in a first run in which the schema of neutron could
\* not be made
C21_Witness ==
    /\ run = 1
    /\ \A p \in ProcNames : Launched(p)
    /\ \A s \in ConfigServices : Migrated(s) /\ cfgFile[s].there
    /\ ~mig["neutron"].ok

\* the stages that read credential record files, and the launch after them
AfterBoot == Dependent \cup {"horizon", "start"}

\* C22: the record files are written by the credential bootstrap only; the
\* stages that read them are entered only by the bootstrap returning to main,
\* its loop over the services ended or abandoned with nothing left to write,
\* and once they are entered the run never goes back into the bootstrap.
C22_BootstrapBeforeWiring ==
    [][/\ credFile' # credFile => pc = <<"boot", "persist">>
       /\ (pc'[1] \in AfterBoot /\ pc[1] \notin AfterBoot) =>
             (pc[1] = "boot" /\ pc' = <<"glance", "merge">> /\ boot'.pending = NoCred)
       /\ pc[1] \in AfterBoot => pc'[1] \notin {"keystone", "boot"}]_vars

\* the wiring of glance is about to read its record in a first run whose
\* bootstrap wrote the record of every service
C22_Witness ==
    /\ run = 1
    /\ pc = <<"glance", "wire">>
    /\ \A s \in CredServices : credFile[s].there /\ credFile[s].id = Latest(s)

\* C23: when the migration step of a dependent service starts, its
\* configuration file has the option connection in the section database.
C23_ConnectionBeforeMigration ==
    \A s \in Dependent :
        pc = <<s, "migrate">> =>
            /\ cfgFile[s].there
            /\ HasSection(cfgFile[s].content, <<"database">>)
            /\ <<"connection">> \in DOMAIN cfgFile[s].content[<<"database">>]

\* the migration of glance starts in a first run that found no template for
\* glance: the option is the one the database step wrote
C23_Witness ==
    /\ run = 1
    /\ pc = <<"glance", "migrate">>
    /\ ~templ["glance"].there
    /\ Connection("glance") = ResolveConnection(env, "glance")

----------------------------------------------------------------------------
(* Properties of the steps of the credential bootstrap *)

\* the control point p is entered on this step
Enters(p) == pc' = p /\ pc # p

C25_RecordNeverReplaced ==
    [][\A s \in CredServices :
          credFile[s].there =>
              (credFile'[s] = credFile[s] /\ ident'.cred[s] = ident.cred[s])]_vars

----------------------------------------------------------------------------
(* Properties of the direct schema procedures *)

\* the migration heads of a database: the expand and the contract head of
\* neutron, one head for each database of nova
Heads(d) == IF d = "neutron" THEN 2 ELSE 1

\* C26: a marker table holds exactly one row per head from the moment it is
\* created, and a procedure that finds the table adds no row to it, however
\* many times it runs.
C26_StampedOnce ==
    /\ [](\A d \in Databases :
              db[d].marker = (IF MarkerTable \in db[d].tables THEN Heads(d) ELSE 0))
    /\ [][\A d \in Databases :
              MarkerTable \in db[d].tables => db'[d].marker = db[d].marker]_vars

\* in a second run after a first one without failures the procedure of
\* neutron has run again, over the marker table of the first run, and the
\* one of nova is about to
C26_Witness ==
    /\ run = 2
    /\ faults = 0
    /\ pc = <<"nova", "migrate">>
    /\ mig["neutron"] = [tool |-> "direct", ok |-> TRUE]
    /\ db["neutron"].marker = 2
    /\ MarkerTable \in db["nova"].tables
    /\ db["nova_api"].marker = 1

\* C27 as stated: after the direct procedure of nova has run to its end on a
\* routing table that was empty, the routing table holds the two rows cell0
\* and cell1.
C27_TwoRoutes ==
    mig["nova"] = [tool |-> "direct", ok |-> TRUE] =>
        \E d \in Databases : db[d].routes = 2

----------------------------------------------------------------------------
(* Properties of the supervisor, continued *)

\* C28 as stated: once the entrypoint has left on an interrupt caught by the
\* supervisor, none of the temporary files it generated remains.
C28_TempFilesReleased ==
    (Left /\ Interrupted) => \A f \in TempFiles : fmode[f] = "absent"

\* C29: in every state each of the nine process names has at most one entry:
\* no process is launched twice in a run.
C29_LaunchedOnce ==
    \A p \in ProcNames : procs[p].launched <= 1

\* a later run is supervising all nine processes, each launched once
C29_Witness ==
    /\ run > 1
    /\ pc = <<"start", "monitor">>
    /\ \A p \in ProcNames : procs[p].launched = 1 /\ procs[p].alive

----------------------------------------------------------------------------
(* Properties of healthcheck.py *)

HealthDone == pc = <<"exit", "done">>

\* the probe was answered with status 200 and a JSON object whose "status"
\* is 'healthy'
HealthyAnswer ==
    /\ probe.reach = "ok"
    /\ probe.code = 200
    /\ probe.body.kind = "object"
    /\ probe.body.status = "healthy"

\* C30 as stated: the exit status is 0 exactly when the probe is reachable,
\* answers 200 and its body is a JSON object with "status" 'healthy', and 1 in
\* every other case.
C30_ExitZeroIffHealthy ==
    HealthDone => /\ exitCode \in {0, 1}
                  /\ exitCode = 0 <=> HealthyAnswer

\* C30, amended: the exit status is 0 exactly when the probe is reachable,
\* answers 200 and its body is a JSON object with "status" 'healthy' whose
\* "services" member, if there is one, is a JSON object; it is 1 in every other
\* case. What the members of "services" say never changes the exit status.
C30_ExitZeroIffWellFormedHealthy ==
    HealthDone => /\ exitCode \in {0, 1}
                  /\ exitCode = 0 <=> (HealthyAnswer
                                       /\ probe.body.services.kind \in {"absent", "map"})

\* the program has exited 0 on an answer that reports a service not running
C30_Witness ==
    /\ HealthDone
    /\ exitCode = 0
    /\ probe.body.services.kind = "map"
    /\ NotRunning(probe.body.services.entries) = HealthServices

----------------------------------------------------------------------------
(* Properties of merge_config, continued *)

HasDelimiter(str) == \E i \in 1..Len(str) : str[i] = "_"

\* C31: the remainder is split on the first delimiter only: <SERVICE>_A_B_C=V
\* sets option 'b_c' of section 'a', and every section of the merged
\* configuration whose name contains the delimiter is a section of the
\* template, left exactly as the template has it.
C31_SplitOnFirstDelimiter ==
    \A s \in ConfigServices :
        MergeDone(s) =>
            LET c == cfgFile[s].content
                t == ReadConfig(templ[s])
                abc == ServiceVar(s, <<"A", "_", "B", "_", "C">>)
            IN  /\ abc \in DOMAIN env =>
                      /\ HasSection(c, <<"a">>)
                      /\ <<"b", "_", "c">> \in DOMAIN c[<<"a">>]
                      /\ c[<<"a">>][<<"b", "_", "c">>] = <<env[abc]>>
                /\ \A sec \in DOMAIN c :
                      HasDelimiter(sec) => sec \in DOMAIN t /\ c[sec] = t[sec]

\* the template has a section 'a_b' with option 'c'; the variable
\* <SERVICE>_A_B_C went to section 'a' and left 'a_b' alone
C31_Witness ==
    /\ MergeDone(MergeService)
    /\ ServiceVar(MergeService, <<"A", "_", "B", "_", "C">>) \in DOMAIN env
    /\ templ[MergeService].there
    /\ <<"a", "_", "b">> \in DOMAIN templ[MergeService].content
    /\ cfgFile[MergeService].content[<<"a", "_", "b">>] = (<<"c">> :> TemplateOpt)
    /\ <<"b", "_", "c">> \in DOMAIN cfgFile[MergeService].content[<<"a">>]

----------------------------------------------------------------------------
(* Properties of the wiring, continued *)

NovaPeers == {"ironic", "neutron"}

\* the options of opts are in section sect of c exactly as they are in b
SameOpts(c, b, sect, opts) ==
    \A o \in opts :
        /\ o \in DOMAIN c[sect] <=> (HasSection(b, sect) /\ o \in DOMAIN b[sect])
        /\ o \in DOMAIN c[sect] => c[sect][o] = b[sect][o]

\* C32: configure_nova gives each of the sections [ironic] and [neutron] of
\* nova's configuration the application-credential auth type with the id and
\* secret of the peer's record when that record exists, and otherwise auth
\* type 'password' with the peer's name for user, project 'service', domain
\* 'Default' and the password of <PEER>_SERVICE_PASSWORD, or the peer's name
\* when that is unset; it writes the fields of one mode only and leaves those
\* of the other as they were.
C32_PeerWiring ==
    [][(pc = <<"nova", "peers">> /\ pc' = <<"nova", "migrate">>) =>
          \A peer \in NovaPeers :
              LET c == cfgFile'["nova"].content
                  b == ReadConfig(cfgFile["nova"])
                  sect == <<peer>>
              IN  /\ HasSection(c, sect)
                  /\ <<"auth", "_", "type">> \in DOMAIN c[sect]
                  /\ IF credFile[peer].there
                     THEN /\ c[sect][<<"auth", "_", "type">>] = AppCredType
                          /\ {IdOpt, SecretOpt} \subseteq DOMAIN c[sect]
                          /\ c[sect][IdOpt] = credFile[peer].id
                          /\ c[sect][SecretOpt] = credFile[peer].secret
                          /\ SameOpts(c, b, sect, PasswordOpts)
                     ELSE /\ c[sect][<<"auth", "_", "type">>] = <<"password">>
                          /\ PasswordOpts \subseteq DOMAIN c[sect]
                          /\ c[sect][<<"username">>] = <<peer>>
                          /\ c[sect][<<"project", "_", "name">>] = <<"service">>
                          /\ c[sect][<<"user", "_", "domain", "_", "name">>] = <<"Default">>
                          /\ c[sect][<<"project", "_", "domain", "_", "name">>] = <<"Default">>
                          /\ c[sect][<<"password">>] =
                                 <<IF PeerPasswordVar(peer) \in DOMAIN env
                                   THEN env[PeerPasswordVar(peer)] ELSE peer>>
                          /\ SameOpts(c, b, sect, {IdOpt, SecretOpt})]_vars

\* nova was wired to neutron from neutron's record, the user name given by an
\* override left in the section, and to ironic by password, the password taken
\* from IRONIC_SERVICE_PASSWORD
C32_Witness ==
    /\ pc = <<"nova", "migrate">>
    /\ credFile["neutron"].there
    /\ ~credFile["ironic"].there
    /\ PeerPasswordVar("ironic") \in DOMAIN env
    /\ cfgFile["nova"].content[<<"neutron">>][IdOpt] = credFile["neutron"].id
    /\ cfgFile["nova"].content[<<"neutron">>][<<"username">>] = <<env[PeerUserOverride]>>
    /\ cfgFile["nova"].content[<<"ironic">>][<<"password">>] = <<env[PeerPasswordVar("ironic")]>>

----------------------------------------------------------------------------
(* Properties of the database resolver, continued *)

\* C33: but for the moment between merge_config and the database step of a
\* service, the option connection of section database in its configuration
\* file is the value the resolver computes from the environment; it is neither
\* the value of the template nor that of <SERVICE>_DATABASE_CONNECTION.
C33_ConnectionResolved ==
    \A s \in ConfigServices :
        (cfgFile[s].there /\ pc # <<s, "db">>) =>
            /\ HasSection(cfgFile[s].content, <<"database">>)
            /\ <<"connection">> \in DOMAIN cfgFile[s].content[<<"database">>]
            /\ Connection(s) = ResolveConnection(env, s)
            /\ Connection(s) # TemplateOpt
            /\ ConnectionOverride(s) \in DOMAIN env =>
                   Connection(s) # <<env[ConnectionOverride(s)]>>

\* every stage is done and the processes run; the template of glance and
\* GLANCE_DATABASE_CONNECTION both gave a connection, and the file has the
\* embedded one
C33_Witness ==
    /\ pc = <<"start", "monitor">>
    /\ templ["glance"].there
    /\ ConnectionOverride("glance") \in DOMAIN env
    /\ ConnectionOverride("nova") \in DOMAIN env
    /\ Connection("glance") = SqliteConnection("glance")
    /\ Connection("nova")[1] = "postgresql://"

----------------------------------------------------------------------------
(* Properties of the supervisor, continued *)

\* C34: the pass that finds a process exited and leaves with status 1 changes
\* no process entry: every other process stays as it was, alive and with no
\* termination request; a termination request is only ever seen after the
\* entrypoint has left on the interrupt path, with status 0.
C34_FailFastLeavesProcesses ==
    /\ [](Interrupted => (Left /\ exitCode = 0))
    /\ [][(pc = <<"start", "monitor">> /\ exitCode' = 1) => procs' = procs]_vars

\* the supervisor has left because the gateway exited; the eight others are
\* alive and none was asked to terminate
C34_Witness ==
    /\ Left
    /\ exitCode = 1
    /\ Exited("gateway")
    /\ \A p \in ProcNames \ {"gateway"} : procs[p].alive /\ ~procs[p].termReq

----------------------------------------------------------------------------
(* Properties of the order of the stages, continued *)

\* C35: while the identity stage and the credential bootstrap run, no process
\* has been launched; every step that changes the identity service or a
\* credential record is taken with no process launched, the gateway included;
\* processes exist only in the start stage and after it.
C35_BootstrapBeforeLaunch ==
    /\ [](pc[1] \in {"keystone", "boot"} => \A p \in ProcNames : ~Launched(p))
    /\ []((\E p \in ProcNames : Launched(p)) => pc[1] \in {"start", "exit"})
    /\ [][(ident' # ident \/ credFile' # credFile) =>
             \A p \in ProcNames : procs[p].launched = 0 /\ procs'[p].launched = 0]_vars

\* the gateway is the only process launched so far, in a first run whose
\* bootstrap issued a credential for every service
C35_Witness ==
    /\ run = 1
    /\ pc = <<"start", "launch">>
    /\ Launched("gateway")
    /\ \A p \in ProcNames \ {"gateway"} : ~Launched(p)
    /\ \A s \in CredServices : ident.cred[s] = 1 /\ credFile[s].there

====
